---- MODULE Spec2Model ----
(***************************************************************************)
(* thrift_tools/idl.py: the schema objects built from a Thrift IDL, their  *)
(* parse methods (the generic value decoder), Function.get_args (the       *)
(* call/reply correlator) and parse_idl_file (the catalog construction).   *)
(*                                                                         *)
(* Spec       Function.get_args applied to one message                     *)
(* ParseSpec  Struct.parse and Enum.parse applied to one raw value         *)
(* BuildSpec  parse_idl_file walking a file and its includes               *)
(***************************************************************************)
EXTENDS Integers, Sequences, FiniteSets, TLC

VARIABLES
    op,             \* the method under application, "none" while building
    pc,             \* "ready" before the call, "done" after it
    self,           \* the receiver: a Function, a Struct/Exc or an Enum
    msg,            \* the argument: a message, or a raw value
    result,         \* what the call returned, RAISE when it raised
    fs,             \* per path, the include list of that file
    stack,          \* parse_file activations, innermost last
    types_by_name,  \* the registry of parse_idl_file
    functions,      \* the function list of parse_idl_file
    status,         \* "running", "returned", "raised", "diverged"
    idl,            \* the Idl that parse_idl_file returned, NoIdl before
    last,           \* the body_part handled by the last parse_body step
    ndecls,         \* the number of body parts handled so far
    finished,       \* the paths whose parse_file activation has completed
    looked          \* the last get_function query and its answer

vars == <<op, pc, self, msg, result, fs, stack, types_by_name, functions,
          status, idl, last, ndecls, finished, looked>>

decodeVars == <<op, pc, self, msg, result>>
buildVars == <<fs, stack, types_by_name, functions, status, idl, last,
               ndecls, finished, looked>>

----------------------------------------------------------------------------
(* Bounds of the model.                                                    *)

MaxFields == 2
MaxEnumValues == 2
MaxMsgLen == 2

SeqsUpTo(S, n) == UNION {[1..m -> S] : m \in 0..n}

----------------------------------------------------------------------------
(* Python values.  Every value carries its kind in k, so that values of    *)
(* different kinds compare unequal.  A field object is one entry of a      *)
(* message: it has a field_id and a value.                                 *)

PyInt(n) == [k |-> "int", v |-> n]
PyStr(s) == [k |-> "str", v |-> s]
None == [k |-> "none", v |-> 0]
PyList(s) == [k |-> "list", v |-> s]
PyTuple(s) == [k |-> "tuple", v |-> s]
PySet(S) == [k |-> "set", v |-> S]
PyDict(f) == [k |-> "dict", v |-> f]
FieldObj(i, x) == [k |-> "field", id |-> i, v |-> x]

\* An exception propagating out of a call.
RAISE == [k |-> "raise", v |-> 0]
\* Control that reaches the end of the try block of get_args.
FALLTHROUGH == [k |-> "fallthrough", v |-> 0]

\* `for x in value` works on a list or a tuple.
Iterable(x) == x.k \in {"list", "tuple"}

RECURSIVE Hashable(_)
Hashable(x) ==
    CASE x.k \in {"int", "str", "none", "field"} -> TRUE
      [] x.k = "tuple" -> \A i \in 1..Len(x.v) : Hashable(x.v[i])
      [] OTHER -> FALSE

\* dict(zip(keys, entries)).get(key): the index of the last entry under the
\* key, 0 when there is none.
LastIndex(keys, key) ==
    LET hits == {i \in 1..Len(keys) : keys[i] = key}
    IN IF hits = {} THEN 0 ELSE CHOOSE i \in hits : \A j \in hits : j <= i

----------------------------------------------------------------------------
(* The schema objects.  A type that is no instance of Type (a primitive    *)
(* AST node, or the void return type) is Prim.                             *)

Prim == [kind |-> "prim"]
Enum(name, values) == [kind |-> "enum", name |-> name, values |-> values]
Field(tag, name, is_required, type) ==
    [tag |-> tag, name |-> name, is_required |-> is_required, type |-> type]
Struct(name, fields) == [kind |-> "struct", name |-> name, fields |-> fields]
Exc(name, fields) == [kind |-> "exc", name |-> name, fields |-> fields]
List(type) == [kind |-> "list", type |-> type]
Set(type) == [kind |-> "set", type |-> type]
Map(key_type, value_type) ==
    [kind |-> "map", key_type |-> key_type, value_type |-> value_type]
Function(name, arguments, type, throws) ==
    [name |-> name, arguments |-> arguments, type |-> type, throws |-> throws]

\* isinstance(type, Type)
IsType(type) == type.kind \in {"enum", "struct", "exc", "list", "set", "map"}

\* Enum.names_by_tags.get(tag): a later (name, tag) pair replaces an
\* earlier one with the same tag; 0 when no pair has the tag.
names_by_tags(values, tag) ==
    LastIndex([i \in 1..Len(values) |-> values[i][2]], tag)

\* Enum.parse: self.names_by_tags[value], a KeyError for an unknown tag
\* (and a TypeError for an unhashable value).
EnumParse(enum, value) ==
    IF value.k # "int" \/ names_by_tags(enum.values, value.v) = 0
    THEN RAISE
    ELSE PyStr(enum.values[names_by_tags(enum.values, value.v)][1])

\* fields_by_tag.get(tag) of Struct.parse, args_by_tag.get(tag) of get_args.
fields_by_tag(entries, tag) ==
    LET i == LastIndex([j \in 1..Len(entries) |-> entries[j].id], tag)
    IN IF i = 0 THEN None ELSE entries[i]

\* Whether dict((x.field_id, x) for x in value) can be built.
IsFieldList(value) ==
    Iterable(value) /\ \A i \in 1..Len(value.v) : value.v[i].k = "field"

\* The value a list of per-item results stands for: RAISE if one raised.
AllOrRaise(items, whole) ==
    IF \E i \in 1..Len(items) : items[i] = RAISE THEN RAISE ELSE whole

\* A faulty StructResult: the pairs without the struct's name.
StructResultBare(struct, struct_fields) == PyList(struct_fields)

\* return (self.name, struct_fields)
StructResult(struct, struct_fields) ==
    PyTuple(<<PyStr(struct.name), PyList(struct_fields)>>)

RECURSIVE parse(_, _)
\* Struct.parse: one (name, value) pair per field of the schema.
StructParse(struct, value) ==
    IF ~IsFieldList(value) THEN RAISE
    ELSE LET one(field_def) ==
                 LET field == fields_by_tag(value.v, field_def.tag)
                 IN IF field = None THEN None
                    ELSE IF IsType(field_def.type)
                         THEN parse(field_def.type, field.v)
                         ELSE field.v
             values == [i \in 1..Len(struct.fields) |-> one(struct.fields[i])]
         IN AllOrRaise(values,
                StructResult(struct,
                    [i \in 1..Len(struct.fields) |->
                        PyTuple(<<PyStr(struct.fields[i].name), values[i]>>)]))

\* The items of a container, each through the element type.
Items(type, value) ==
    [i \in 1..Len(value.v) |->
        IF IsType(type) THEN parse(type, value.v[i]) ELSE value.v[i]]

\* List.parse
ListParse(list, value) ==
    IF ~Iterable(value) THEN RAISE
    ELSE AllOrRaise(Items(list.type, value), PyList(Items(list.type, value)))

\* Set.parse: set_values.add(value) needs a hashable value.
SetParse(set, value) ==
    IF ~Iterable(value) THEN RAISE
    ELSE LET items == Items(set.type, value)
         IN IF \E i \in 1..Len(items) : items[i] = RAISE THEN RAISE
            ELSE IF \E i \in 1..Len(items) : ~Hashable(items[i]) THEN RAISE
            ELSE PySet({items[i] : i \in 1..Len(items)})

\* Map.parse: `for key, value in map` unpacks items of length two, and
\* map_values[key] = value keeps the last value of a key.
MapParse(map, value) ==
    IF ~Iterable(value) THEN RAISE
    ELSE IF \E i \in 1..Len(value.v) :
                ~Iterable(value.v[i]) \/ Len(value.v[i].v) # 2 THEN RAISE
    ELSE LET n == Len(value.v)
             keys == [i \in 1..n |->
                        IF IsType(map.key_type)
                        THEN parse(map.key_type, value.v[i].v[1])
                        ELSE value.v[i].v[1]]
             vals == [i \in 1..n |->
                        IF IsType(map.value_type)
                        THEN parse(map.value_type, value.v[i].v[2])
                        ELSE value.v[i].v[2]]
             bad == {i \in 1..n : keys[i] = RAISE \/ vals[i] = RAISE
                                  \/ ~Hashable(keys[i])}
         IN IF bad # {} THEN RAISE
            ELSE PyDict({<<keys[i], vals[i]>> : i \in
                    {i \in 1..n : \A j \in (i+1)..n : keys[j] # keys[i]}})

\* type.parse(value), dispatched on the class of type.
parse(type, value) ==
    CASE type.kind = "enum" -> EnumParse(type, value)
      [] type.kind \in {"struct", "exc"} -> StructParse(type, value)
      [] type.kind = "list" -> ListParse(type, value)
      [] type.kind = "set" -> SetParse(type, value)
      [] type.kind = "map" -> MapParse(type, value)

\* value through type when type is a Type, unchanged otherwise.
Decode(type, value) == IF IsType(type) THEN parse(type, value) ELSE value

----------------------------------------------------------------------------
(* Function.get_args.                                                      *)

Message(type, args) == [type |-> type, args |-> args]

\* A faulty throws_by_tags: the first throw with the tag, not the last.
ThrowsByTagsFirst(throws, tag) ==
    LET hits == {i \in 1..Len(throws) : throws[i].tag = tag}
    IN IF hits = {} THEN 0 ELSE CHOOSE i \in hits : \A j \in hits : i <= j

\* self.throws_by_tags: the index of the last throw with the tag, 0 if none.
throws_by_tags(throws, tag) ==
    LastIndex([i \in 1..Len(throws) |-> throws[i].tag], tag)

\* A faulty EntryValue: a missing argument becomes None.
EntryValueOrNone(entry) == IF entry = None THEN None ELSE entry.v

\* args_by_tag.get(arg.tag).value: an AttributeError on a missing entry.
EntryValue(entry) == IF entry = None THEN RAISE ELSE entry.v

\* A faulty ArgumentOrder: the reverse of the declared order.
ArgumentsReversed(arguments) ==
    [i \in 1..Len(arguments) |-> arguments[Len(arguments) + 1 - i]]

\* for arg in self.arguments
ArgumentOrder(arguments) == arguments

\* The branch msg.type == 'call'.
GetArgsCall(fn, m) ==
    LET order == ArgumentOrder(fn.arguments)
        one(arg) ==
            LET value == EntryValue(fields_by_tag(m.args.v, arg.tag))
            IN IF value = RAISE THEN RAISE ELSE Decode(arg.type, value)
        values == [i \in 1..Len(order) |-> one(order[i])]
    IN AllOrRaise(values,
           PyList([i \in 1..Len(order) |->
                      PyTuple(<<PyStr(order[i].name), values[i]>>)]))

\* A faulty GetArgsReply: the tag is looked up in the throws first.
GetArgsReplyThrowsFirst(fn, m) ==
    IF Len(m.args.v) = 0 THEN FALLTHROUGH
    ELSE LET first == m.args.v[1]
             t == throws_by_tags(fn.throws, first.id)
         IN IF t # 0 THEN Decode(fn.throws[t].type, first.v)
            ELSE IF first.id = 0 THEN Decode(fn.type, first.v)
            ELSE RAISE

\* The branch msg.type == 'reply'.
GetArgsReply(fn, m) ==
    IF Len(m.args.v) = 0 THEN FALLTHROUGH
    ELSE LET first == m.args.v[1]
         IN IF first.id = 0
            THEN Decode(fn.type, first.v)
            ELSE LET t == throws_by_tags(fn.throws, first.id)
                 IN IF t = 0 THEN RAISE
                    ELSE Decode(fn.throws[t].type, first.v)

\* The try block: a value returned, RAISE, or FALLTHROUGH.
TryBlock(fn, m) ==
    CASE m.type = "call" -> GetArgsCall(fn, m)
      [] m.type = "reply" -> GetArgsReply(fn, m)
      [] OTHER -> FALLTHROUGH

\* A faulty Except: no except clause, the exception propagates.
ExceptPropagates(tried, m) == IF tried = FALLTHROUGH THEN m.args ELSE tried

\* except: print_exc(), and then the trailing return msg.args.
Except(tried, m) == IF tried \in {RAISE, FALLTHROUGH} THEN m.args ELSE tried

get_args(fn, m) == Except(TryBlock(fn, m), m)

----------------------------------------------------------------------------
(* The inputs of the decoder and of the correlator.                        *)

Labels == {"RED", "BLUE"}
Tags == {1, 2}
NameOf(i) == <<"a", "b", "c", "d">>[i]

Color == Enum("Color", <<<<"RED", 1>>, <<"BLUE", 2>>>>)
Point == Struct("Point", <<Field(2, "c", TRUE, Color),
                           Field(1, "x", FALSE, Prim)>>)
Err == Exc("Err", <<Field(1, "message", FALSE, Prim)>>)
Bad == Exc("Bad", <<Field(1, "code", FALSE, Color)>>)

\* Every enum of at most MaxEnumValues (label, tag) pairs.
Enums == {Enum("E", values) : values \in SeqsUpTo(Labels \X Tags, MaxEnumValues)}

\* Field lists of at most n fields, the i-th named NameOf(i).
FieldLists(tags, types, required, n) ==
    {[i \in 1..Len(f) |-> Field(f[i][1], NameOf(i), required, f[i][2])] :
        f \in SeqsUpTo(tags \X types, n)}

\* Raw values: a tag the enums declare, a tag no enum declares, an empty
\* sequence, and a field sequence holding both tags.
RawValues ==
    {PyInt(1), PyInt(3), PyList(<<>>),
     PyList(<<FieldObj(1, PyInt(3)), FieldObj(2, PyInt(1))>>)}

\* Sequences of at most n entries, each with a field_id and a value.
EntryLists(ids, values, n) ==
    {PyList([i \in 1..Len(s) |-> FieldObj(s[i][1], s[i][2])]) :
        s \in SeqsUpTo(ids \X values, n)}

Messages(type, n) ==
    {Message(type, args) : args \in EntryLists({0} \cup Tags, RawValues, n)}

CallFunctions ==
    {Function("f", arguments, Prim, <<>>) :
        arguments \in FieldLists(Tags, {Prim, Color, Point}, TRUE, MaxFields)}
ReplyFunctions ==
    {Function("f", <<>>, x[1], x[2]) :
        x \in {Prim, Color, Set(Point)} \X
               FieldLists({0} \cup Tags, {Err, Bad}, FALSE, MaxFields)}

GetArgsInputs ==
    (CallFunctions \X Messages("call", MaxMsgLen))
    \cup (ReplyFunctions \X Messages("reply", MaxMsgLen))
    \cup ({Function("f", <<Field(1, "a", TRUE, Color)>>, Color, <<>>)} \X
            Messages("oneway", 1))

StructInputs ==
    ({Struct("S", fields) :
         fields \in FieldLists(Tags, {Prim, Color, List(Color), Map(Color, Prim)},
                               FALSE, MaxFields)}
     \cup {Err, Bad})
    \X ({PyInt(1)} \cup EntryLists(Tags \cup {3},
            {PyInt(1), PyInt(3), PyList(<<PyInt(2), PyInt(1)>>),
             PyList(<<PyTuple(<<PyInt(1), PyInt(1)>>),
                      PyTuple(<<PyInt(1), PyInt(2)>>)>>)}, MaxMsgLen))

EnumInputs == Enums \X ({PyInt(n) : n \in {0, 3} \cup Tags} \cup {PyList(<<>>)})

----------------------------------------------------------------------------
(* Spec: the correlator applied to one message.                            *)

NoBuild ==
    /\ fs = <<>> /\ stack = <<>> /\ types_by_name = <<>> /\ functions = <<>>
    /\ status = "none" /\ idl = None /\ last = None /\ ndecls = 0
    /\ finished = {} /\ looked = None

Init ==
    /\ pc = "ready"
    /\ result = None
    /\ op \in {"call", "reply", "oneway"}
    /\ \E x \in GetArgsInputs : self = x[1] /\ msg = x[2] /\ op = x[2].type
    /\ NoBuild

\* fn.get_args(msg), msg.type == 'call'
GetArgsOfCall ==
    /\ pc = "ready" /\ op = "call"
    /\ result' = get_args(self, msg)
    /\ pc' = "done"
    /\ UNCHANGED <<op, self, msg, buildVars>>

\* fn.get_args(msg), msg.type == 'reply'
GetArgsOfReply ==
    /\ pc = "ready" /\ op = "reply"
    /\ result' = get_args(self, msg)
    /\ pc' = "done"
    /\ UNCHANGED <<op, self, msg, buildVars>>

\* fn.get_args(msg), msg.type neither 'call' nor 'reply'
GetArgsOfOther ==
    /\ pc = "ready" /\ op = "oneway"
    /\ result' = get_args(self, msg)
    /\ pc' = "done"
    /\ UNCHANGED <<op, self, msg, buildVars>>

Next == GetArgsOfCall \/ GetArgsOfReply \/ GetArgsOfOther

Spec == Init /\ [][Next]_vars

----------------------------------------------------------------------------
(* ParseSpec: Struct.parse and Enum.parse applied to one raw value.        *)

ParseInit ==
    /\ pc = "ready"
    /\ result = None
    /\ \E x \in [o : {"Struct.parse"}, i : StructInputs]
               \cup [o : {"Enum.parse"}, i : EnumInputs] :
           op = x.o /\ self = x.i[1] /\ msg = x.i[2]
    /\ NoBuild

\* struct.parse(fields)
DoStructParse ==
    /\ pc = "ready" /\ op = "Struct.parse"
    /\ result' = StructParse(self, msg)
    /\ pc' = "done"
    /\ UNCHANGED <<op, self, msg, buildVars>>

\* enum.parse(value)
DoEnumParse ==
    /\ pc = "ready" /\ op = "Enum.parse"
    /\ result' = EnumParse(self, msg)
    /\ pc' = "done"
    /\ UNCHANGED <<op, self, msg, buildVars>>

ParseNext == DoStructParse \/ DoEnumParse

ParseSpec == ParseInit /\ [][ParseNext]_vars

----------------------------------------------------------------------------
(* parse_idl_file: the AST it reads.                                       *)

MaxDecls == 3
MaxIncludes == 1
MaxDepth == 4

Identifier(value) == [kind |-> "Identifier", value |-> value]
AstList(value_type) == [kind |-> "ast.List", value_type |-> value_type]
AstSet(value_type) == [kind |-> "ast.Set", value_type |-> value_type]
AstMap(key_type, value_type) ==
    [kind |-> "ast.Map", key_type |-> key_type, value_type |-> value_type]
FieldAst(tag, name, required, type) ==
    [tag |-> tag, name |-> name, required |-> required, type |-> type]
FunctionAst(name, arguments, type, throws) ==
    [name |-> name, arguments |-> arguments, type |-> type, throws |-> throws]
Typedef(name, type) == [kind |-> "Typedef", name |-> name, type |-> type]
EnumAst(name, values) == [kind |-> "Enum", name |-> name, values |-> values]
StructAst(name, fields) == [kind |-> "Struct", name |-> name, fields |-> fields]
ExceptionAst(name, fields) ==
    [kind |-> "Exception_", name |-> name, fields |-> fields]
ServiceAst(fns) == [kind |-> "Service", functions |-> fns]

TypeDef(name, type) == [kind |-> "typedef", name |-> name, type |-> type]
NoIdl == None
Idl(fns, by_name) == [functions |-> fns, functions_by_name |-> by_name]

\* Recursion of resolve_type deeper than MaxDepth.
DIVERGE == [k |-> "diverge", v |-> 0]
Failed(x) == x = RAISE \/ x = DIVERGE
\* The first failure among the results, in evaluation order; None if none.
FirstFailure(results) ==
    LET bad == {i \in 1..Len(results) : Failed(results[i])}
    IN IF bad = {} THEN None
       ELSE results[CHOOSE i \in bad : \A j \in bad : i <= j]

\* A faulty Lookup: a default instead of the KeyError.
LookupOrPrim(reg, name) == IF name \in DOMAIN reg THEN reg[name] ELSE Prim

\* types_by_name[type.value]: a KeyError for a name not registered.
Lookup(reg, name) == IF name \in DOMAIN reg THEN reg[name] ELSE RAISE

\* List(type = ...), Set(type = ...), Map(key_type = ..., value_type = ...)
\* around resolved element types, or the failure of resolving one.
ListOf(t) == IF Failed(t) THEN t ELSE List(t)
SetOf(t) == IF Failed(t) THEN t ELSE Set(t)
MapOf(kt, vt) == IF Failed(kt) THEN kt ELSE IF Failed(vt) THEN vt ELSE Map(kt, vt)

RECURSIVE resolve_type(_, _, _)
\* The Identifier branch, given the registered entry: an alias is followed.
FollowAlias(resolved_type, reg, depth) ==
    IF resolved_type = RAISE THEN RAISE
    ELSE IF resolved_type.kind = "typedef"
         THEN resolve_type(resolved_type.type, reg, depth - 1)
         ELSE resolved_type

resolve_type(type, reg, depth) ==
    IF depth = 0 THEN DIVERGE
    ELSE CASE type.kind = "Identifier" ->
                FollowAlias(Lookup(reg, type.value), reg, depth)
           [] type.kind = "ast.List" ->
                ListOf(resolve_type(type.value_type, reg, depth - 1))
           [] type.kind = "ast.Set" ->
                SetOf(resolve_type(type.value_type, reg, depth - 1))
           [] type.kind = "ast.Map" ->
                MapOf(resolve_type(type.key_type, reg, depth - 1),
                      resolve_type(type.value_type, reg, depth - 1))
           [] OTHER -> type

\* A faulty TypedefTarget: the target is kept unresolved.
TypedefTargetLazy(type, reg) == type

\* TypeDef(type = resolve_type(body_part.type)): resolved when declared.
TypedefTarget(type, reg) == resolve_type(type, reg, MaxDepth)

\* types_by_name[name] = entry
Register(reg, name, entry) ==
    [n \in DOMAIN reg \cup {name} |-> IF n = name THEN entry ELSE reg[n]]

\* Field(tag, name, is_required, type) around a resolved type.
FieldOf(field_ast, is_required, t) ==
    IF Failed(t) THEN t
    ELSE Field(field_ast.tag, field_ast.name, is_required, t)

\* The fields of a struct or of an exception: is_required from the AST.
ResolveFields(field_asts, reg) ==
    [i \in 1..Len(field_asts) |->
        FieldOf(field_asts[i], field_asts[i].required,
                resolve_type(field_asts[i].type, reg, MaxDepth))]

\* The arguments (is_required = True) or throws (False) of a function.
ResolveSlots(field_asts, reg, is_required) ==
    [i \in 1..Len(field_asts) |->
        FieldOf(field_asts[i], is_required,
                resolve_type(field_asts[i].type, reg, MaxDepth))]

\* Function(name, arguments, type, throws), or the first failure met while
\* resolving the arguments, then the throws, then the return type.
FunctionOf(function_ast, arguments, throws, type) ==
    IF FirstFailure(arguments \o throws \o <<type>>) # None
    THEN FirstFailure(arguments \o throws \o <<type>>)
    ELSE Function(function_ast.name, arguments, type, throws)

ResolveFunction(function_ast, reg) ==
    FunctionOf(function_ast,
               ResolveSlots(function_ast.arguments, reg, TRUE),
               ResolveSlots(function_ast.throws, reg, FALSE),
               resolve_type(function_ast.type, reg, MaxDepth))

\* What one body part does to the registry and to the function list:
\* out is None when it completes, RAISE or DIVERGE when it fails.
After(reg, fns, out) == [types_by_name |-> reg, functions |-> fns, out |-> out]

\* types_by_name[name] = entry, unless building the entry failed.
RegisterOrFail(reg, fns, name, entry, failure) ==
    IF failure # None THEN After(reg, fns, failure)
    ELSE After(Register(reg, name, entry), fns, None)

\* functions.append(function) for each function made before a failure.
AppendUntilFailure(reg, fns, made) ==
    After(reg,
          fns \o SubSeq(made, 1,
                   Cardinality({i \in 1..Len(made) :
                       \A j \in 1..i : ~Failed(made[j])})),
          FirstFailure(made))

ParseTypedefPart(body_part, reg, fns, t) ==
    RegisterOrFail(reg, fns, body_part.name, TypeDef(body_part.name, t),
                   FirstFailure(<<t>>))

ParseStructPart(body_part, reg, fns, fields) ==
    RegisterOrFail(reg, fns, body_part.name,
                   IF body_part.kind = "Struct"
                   THEN Struct(body_part.name, fields)
                   ELSE Exc(body_part.name, fields),
                   FirstFailure(fields))

parse_body(body_part, reg, fns) ==
    CASE body_part.kind = "Typedef" ->
            ParseTypedefPart(body_part, reg, fns,
                             TypedefTarget(body_part.type, reg))
      [] body_part.kind = "Enum" ->
            After(Register(reg, body_part.name,
                           Enum(body_part.name, body_part.values)), fns, None)
      [] body_part.kind \in {"Struct", "Exception_"} ->
            ParseStructPart(body_part, reg, fns,
                            ResolveFields(body_part.fields, reg))
      [] body_part.kind = "Service" ->
            AppendUntilFailure(reg, fns,
                [i \in 1..Len(body_part.functions) |->
                    ResolveFunction(body_part.functions[i], reg)])

\* Idl.functions_by_name = dict((x.name, x) for x in self.functions)
functions_by_name(fns) ==
    [name \in {fns[i].name : i \in 1..Len(fns)} |->
        fns[LastIndex([i \in 1..Len(fns) |-> fns[i].name], name)]]

\* Idl.get_function: self.functions_by_name.get(name, None)
get_function(catalog, name) ==
    IF name \in DOMAIN catalog.functions_by_name
    THEN catalog.functions_by_name[name]
    ELSE None

----------------------------------------------------------------------------
(* BuildSpec: parse_idl_file on the file at path 1.  A file includes only  *)
(* files of a higher path, so that the include graph has no cycle.         *)

Paths == {1, 2, 3}
TypeNames == {"A", "B"}
IdA == Identifier("A")
IdB == Identifier("B")

IncludeGraphs ==
    {g \in [Paths -> SeqsUpTo(Paths, MaxIncludes)] :
        \A p \in Paths : \A i \in 1..Len(g[p]) : g[p][i] > p}

Typedefs == {Typedef(n, t) : n \in TypeNames, t \in {IdA, IdB, AstList(IdA)}}
EnumAsts == {EnumAst("A", <<<<"RED", 1>>, <<"BLUE", 2>>>>)}
StructAsts == {StructAst("B", <<FieldAst(1, "x", TRUE, t)>>) : t \in {IdA, IdB}}
ExceptionAsts == {ExceptionAst("B", <<FieldAst(1, "message", FALSE, Prim)>>)}
FunctionAsts ==
    <<FunctionAst("f", <<>>, Prim, <<>>),
      FunctionAst("f", <<FieldAst(1, "a", FALSE, IdA)>>, AstMap(IdA, IdB),
                  <<FieldAst(1, "e", FALSE, IdB)>>),
      FunctionAst("g", <<>>, AstSet(IdA), <<>>)>>
ServiceAsts ==
    {ServiceAst(<<FunctionAsts[i]>>) : i \in 1..3}
    \cup {ServiceAst(<<FunctionAsts[1], FunctionAsts[2]>>)}
BodyParts ==
    Typedefs \cup EnumAsts \cup StructAsts \cup ExceptionAsts \cup ServiceAsts

Frame(path, inc, body) == [path |-> path, inc |-> inc, body |-> body]
Top == stack[Len(stack)]

NoDecode ==
    /\ op = "none" /\ pc = "none" /\ self = None /\ msg = None /\ result = None

BuildInit ==
    /\ fs \in IncludeGraphs
    /\ stack = <<Frame(1, 1, 0)>>
    /\ types_by_name = <<>>
    /\ functions = <<>>
    /\ status = "running"
    /\ idl = NoIdl
    /\ last = None
    /\ ndecls = 0
    /\ finished = {}
    /\ looked = None
    /\ NoDecode

\* A faulty IncludesDone: the body does not wait for the includes.
IncludesDoneAlways(frame, includes) == TRUE

\* parse_file reaches parse_body(tree.body) after the loop over the includes.
IncludesDone(frame, includes) == frame.inc > Len(includes[frame.path])

\* for include in tree.includes: parse_file(include_path)
ParseFileInclude ==
    /\ status = "running" /\ stack # <<>>
    /\ Top.inc <= Len(fs[Top.path])
    /\ stack' = [stack EXCEPT ![Len(stack)].inc = @ + 1]
                    \o <<Frame(fs[Top.path][Top.inc], 1, 0)>>
    /\ UNCHANGED <<decodeVars, fs, types_by_name, functions, status, idl,
                   last, ndecls, finished, looked>>

\* The state after one iteration of the loop of parse_body.
Becomes(body_part, after) ==
    /\ types_by_name' = after.types_by_name
    /\ functions' = after.functions
    /\ status' = CASE after.out = RAISE -> "raised"
                   [] after.out = DIVERGE -> "diverged"
                   [] OTHER -> "running"
    /\ stack' = IF after.out = None
                THEN [stack EXCEPT ![Len(stack)].body = @ + 1]
                ELSE <<>>
    /\ last' = body_part
    /\ ndecls' = ndecls + 1
    /\ UNCHANGED <<decodeVars, fs, idl, finished, looked>>

\* One iteration of the loop of parse_body, on body_part.
ParseBodyPart(body_part) ==
    /\ status = "running" /\ stack # <<>>
    /\ IncludesDone(Top, fs)
    /\ ndecls < MaxDecls
    /\ Becomes(body_part, parse_body(body_part, types_by_name, functions))

\* isinstance(body_part, ast.Typedef)
ParseTypedef ==
    \E body_part \in BodyParts :
        body_part.kind = "Typedef" /\ ParseBodyPart(body_part)

\* isinstance(body_part, ast.Enum)
ParseEnum ==
    \E body_part \in BodyParts :
        body_part.kind = "Enum" /\ ParseBodyPart(body_part)

\* isinstance(body_part, ast.Struct)
ParseStruct ==
    \E body_part \in BodyParts :
        body_part.kind = "Struct" /\ ParseBodyPart(body_part)

\* isinstance(body_part, ast.Exception_)
ParseException ==
    \E body_part \in BodyParts :
        body_part.kind = "Exception_" /\ ParseBodyPart(body_part)

\* isinstance(body_part, ast.Service)
ParseService ==
    \E body_part \in BodyParts :
        body_part.kind = "Service" /\ ParseBodyPart(body_part)

\* parse_body has walked the whole body: parse_file returns to its caller.
ParseFileReturn ==
    /\ status = "running" /\ stack # <<>>
    /\ Top.inc > Len(fs[Top.path])
    /\ finished' = finished \cup {Top.path}
    /\ stack' = SubSeq(stack, 1, Len(stack) - 1)
    /\ UNCHANGED <<decodeVars, fs, types_by_name, functions, status, idl,
                   last, ndecls, looked>>

\* return Idl(functions = functions)
ReturnIdl ==
    /\ status = "running" /\ stack = <<>>
    /\ idl' = Idl(functions, functions_by_name(functions))
    /\ status' = "returned"
    /\ UNCHANGED <<decodeVars, fs, stack, types_by_name, functions, last,
                   ndecls, finished, looked>>

\* idl.get_function(name)
GetFunction ==
    /\ status = "returned"
    /\ \E name \in {"f", "g", "h"} :
          looked' = [name |-> name, answer |-> get_function(idl, name)]
    /\ UNCHANGED <<decodeVars, fs, stack, types_by_name, functions, status,
                   idl, last, ndecls, finished>>

BuildNext ==
    \/ ParseFileInclude
    \/ ParseTypedef
    \/ ParseEnum
    \/ ParseStruct
    \/ ParseException
    \/ ParseService
    \/ ParseFileReturn
    \/ ReturnIdl
    \/ GetFunction

BuildSpec == BuildInit /\ [][BuildNext]_vars

----------------------------------------------------------------------------
(* Properties of Function.get_args, checked under Spec.                    *)

Returned == pc = "done"
Entries == msg.args.v
EntryIds == {Entries[i].id : i \in 1..Len(Entries)}
\* The value of the last entry of the message that carries the tag.
LastValue(tag) ==
    Entries[CHOOSE i \in 1..Len(Entries) :
                /\ Entries[i].id = tag
                /\ \A j \in (i+1)..Len(Entries) : Entries[j].id # tag].v
\* The declared throws that carry the tag.
ThrowsWith(tag) == {i \in 1..Len(self.throws) : self.throws[i].tag = tag}
\* The list of (name, value) pairs get_args builds for a call.
IsPairList(x, names, values) ==
    /\ x.k = "list"
    /\ Len(x.v) = Len(names)
    /\ \A i \in 1..Len(names) :
          /\ x.v[i].k = "tuple"
          /\ x.v[i].v = <<PyStr(names[i]), values[i]>>

AllArgsPresent == \A i \in 1..Len(self.arguments) : self.arguments[i].tag \in EntryIds
ArgNames == [i \in 1..Len(self.arguments) |-> self.arguments[i].name]
\* Each declared argument's entry through the argument's type.
ArgValues ==
    [i \in 1..Len(self.arguments) |->
        Decode(self.arguments[i].type, LastValue(self.arguments[i].tag))]
ArgsDecode == \A i \in 1..Len(self.arguments) : ArgValues[i] # RAISE

\* The three causes of a decode error inside get_args.
UnknownReplyTag ==
    /\ op = "reply" /\ Len(Entries) > 0
    /\ Entries[1].id # 0 /\ ThrowsWith(Entries[1].id) = {}
MissingArgument == op = "call" /\ ~AllArgsPresent
NestedFailure ==
    \/ /\ op = "call"
       /\ \E i \in 1..Len(self.arguments) :
             /\ self.arguments[i].tag \in EntryIds
             /\ Decode(self.arguments[i].type,
                       LastValue(self.arguments[i].tag)) = RAISE
    \/ /\ op = "reply" /\ Len(Entries) > 0 /\ Entries[1].id = 0
       /\ Decode(self.type, Entries[1].v) = RAISE
    \/ /\ op = "reply" /\ Len(Entries) > 0 /\ Entries[1].id # 0
       /\ \E i \in ThrowsWith(Entries[1].id) :
             /\ \A j \in ThrowsWith(Entries[1].id) : j <= i
             /\ Decode(self.throws[i].type, Entries[1].v) = RAISE

\* C1: for every function and every message, whatever its role, tags and
\* values, get_args returns normally: it never raises, and what it returns
\* is the value its try block produced or the raw args of the message.
C1_NeverRaises ==
    Returned =>
        /\ result # RAISE
        /\ result # FALLTHROUGH
        /\ \/ result = msg.args
           \/ /\ TryBlock(self, msg) \notin {RAISE, FALLTHROUGH}
              /\ result = TryBlock(self, msg)

\* A message whose nested decode failed was answered with its raw args.
C1_Witness ==
    /\ Returned /\ NestedFailure /\ Len(Entries) = MaxMsgLen
    /\ result = msg.args

\* C2 as stated: for every call message with an entry for each declared
\* argument tag, get_args returns one (name, decoded value) pair per
\* declared argument, in declared order, the value being an entry with the
\* argument's tag through the argument's type.
C2_Original ==
    (Returned /\ op = "call" /\ AllArgsPresent) =>
        /\ result.k = "list"
        /\ Len(result.v) = Len(self.arguments)
        /\ \A i \in 1..Len(self.arguments) :
              /\ result.v[i].k = "tuple"
              /\ Len(result.v[i].v) = 2
              /\ result.v[i].v[1] = PyStr(self.arguments[i].name)
              /\ \E j \in 1..Len(Entries) :
                    /\ Entries[j].id = self.arguments[i].tag
                    /\ result.v[i].v[2] =
                           Decode(self.arguments[i].type, Entries[j].v)

\* C2 amended: for a call message with an entry for each declared argument
\* tag, when the last entry under each declared tag decodes through the
\* argument's type, get_args returns the (name, decoded value) pairs in
\* declared order; when one of them fails to decode it returns the raw args.
C2_CallArguments ==
    (Returned /\ op = "call" /\ AllArgsPresent) =>
        IF ArgsDecode
        THEN IsPairList(result, ArgNames, ArgValues)
        ELSE result = msg.args

\* Two arguments declared in the opposite order of their entries, one of
\* them an enum tag decoded to its label.
C2_Witness ==
    /\ Returned /\ op = "call" /\ AllArgsPresent /\ ArgsDecode
    /\ Len(self.arguments) = 2 /\ Len(Entries) = 2
    /\ self.arguments[1].tag = Entries[2].id
    /\ self.arguments[2].tag = Entries[1].id
    /\ Entries[1].id # Entries[2].id
    /\ self.arguments[1].type = Color
    /\ self.arguments[2].type = Point
    /\ result = PyList(<<
           PyTuple(<<PyStr("a"), PyStr("RED")>>),
           PyTuple(<<PyStr("b"), PyTuple(<<PyStr("Point"), PyList(<<
               PyTuple(<<PyStr("c"), PyStr("RED")>>),
               PyTuple(<<PyStr("x"), PyInt(3)>>)>>)>>)>>)>>)

\* C3 as stated: for every reply whose first entry has tag 0, get_args
\* returns that entry's value through the declared return type.
C3_Original ==
    (Returned /\ op = "reply" /\ Len(Entries) > 0 /\ Entries[1].id = 0) =>
        result = Decode(self.type, Entries[1].v)

\* C3 amended: for a reply whose first entry has tag 0, get_args returns
\* that entry's value through the declared return type when that decode
\* succeeds, whatever the throws declare and whatever entries follow, and
\* the raw args when it fails.
C3_ReplyReturnValue ==
    (Returned /\ op = "reply" /\ Len(Entries) > 0 /\ Entries[1].id = 0) =>
        IF Decode(self.type, Entries[1].v) # RAISE
        THEN result = Decode(self.type, Entries[1].v)
        ELSE result = msg.args

\* A tag-0 reply of two entries for a function that also declares a throw
\* with tag 0, decoded through an enum return type.
C3_Witness ==
    /\ Returned /\ op = "reply" /\ Len(Entries) = 2 /\ Entries[1].id = 0
    /\ ThrowsWith(0) # {}
    /\ self.type = Color
    /\ result = PyStr("RED")

\* C4 as stated: for every reply whose first entry has a non-zero tag that
\* a declared throw carries, get_args returns that entry's value through
\* the type of a throw with that tag.
C4_Original ==
    (Returned /\ op = "reply" /\ Len(Entries) > 0 /\ Entries[1].id # 0
        /\ ThrowsWith(Entries[1].id) # {}) =>
        \E i \in ThrowsWith(Entries[1].id) :
            result = Decode(self.throws[i].type, Entries[1].v)

\* C4 amended: for such a reply, get_args returns the entry's value through
\* the type of the last declared throw with that tag when that decode
\* succeeds, and the raw args when it fails.
C4_ReplyException ==
    (Returned /\ op = "reply" /\ Len(Entries) > 0 /\ Entries[1].id # 0
        /\ ThrowsWith(Entries[1].id) # {}) =>
        LET i == CHOOSE i \in ThrowsWith(Entries[1].id) :
                     \A j \in ThrowsWith(Entries[1].id) : j <= i
            value == Decode(self.throws[i].type, Entries[1].v)
        IN IF value # RAISE THEN result = value ELSE result = msg.args

\* A reply whose tag two throws of different types carry, decoded through
\* the later one to the exception's (name, fields) value.
C4_Witness ==
    /\ Returned /\ op = "reply" /\ Len(Entries) > 0 /\ Entries[1].id # 0
    /\ self.type = Color
    /\ Len(self.throws) = 2
    /\ self.throws[1] = Field(Entries[1].id, NameOf(1), FALSE, Bad)
    /\ self.throws[2] = Field(Entries[1].id, NameOf(2), FALSE, Err)
    /\ result = PyTuple(<<PyStr("Err"),
                   PyList(<<PyTuple(<<PyStr("message"), PyInt(3)>>)>>)>>)

\* C7: a decode error inside get_args (a reply tag that is neither 0 nor a
\* declared throw tag, a call without the entry of a declared argument, a
\* nested decode that fails) is caught, and the value returned is the raw
\* args of the message, with nothing decoded in it.
C7_ErrorsFallBack ==
    (Returned /\ (UnknownReplyTag \/ MissingArgument \/ NestedFailure)) =>
        result = msg.args

\* A call with one argument decodable and the other missing: the decoded
\* one is not in the result.
C7_Witness ==
    /\ Returned /\ MissingArgument
    /\ Len(self.arguments) = 2
    /\ self.arguments[1].type = Color
    /\ self.arguments[1].tag \in EntryIds
    /\ Decode(Color, LastValue(self.arguments[1].tag)) = PyStr("RED")
    /\ self.arguments[2].tag \notin EntryIds
    /\ result = msg.args

----------------------------------------------------------------------------
(* Properties of Struct.parse and Enum.parse, checked under ParseSpec.     *)

RawFields == msg.v
RawIds == {RawFields[i].id : i \in 1..Len(RawFields)}
\* The value of the last raw field that carries the tag.
LastRaw(tag) ==
    RawFields[CHOOSE i \in 1..Len(RawFields) :
                  /\ RawFields[i].id = tag
                  /\ \A j \in (i+1)..Len(RawFields) : RawFields[j].id # tag].v
FieldNames == [i \in 1..Len(self.fields) |-> self.fields[i].name]
\* Per declared field: None when absent, else its raw value through its type.
FieldValues ==
    [i \in 1..Len(self.fields) |->
        IF self.fields[i].tag \notin RawIds THEN None
        ELSE Decode(self.fields[i].type, LastRaw(self.fields[i].tag))]

C6_Original ==
    (Returned /\ op = "Enum.parse" /\ msg.k = "int") =>
        /\ \A i \in 1..Len(self.values) :
              msg.v = self.values[i][2] => result = PyStr(self.values[i][1])
        /\ (\A i \in 1..Len(self.values) : msg.v # self.values[i][2])
              => result = RAISE

----------------------------------------------------------------------------
(* Properties of parse_idl_file, checked under BuildSpec.                  *)

\* The names an AST type refers to.
RECURSIVE NamesIn(_)
NamesIn(type) ==
    CASE type.kind = "Identifier" -> {type.value}
      [] type.kind \in {"ast.List", "ast.Set"} -> NamesIn(type.value_type)
      [] type.kind = "ast.Map" ->
            NamesIn(type.key_type) \cup NamesIn(type.value_type)
      [] OTHER -> {}
NamesInFields(field_asts) ==
    UNION {NamesIn(field_asts[i].type) : i \in 1..Len(field_asts)}
\* The names a body part makes resolve_type look up.
NamesOf(body_part) ==
    CASE body_part.kind = "Typedef" -> NamesIn(body_part.type)
      [] body_part.kind \in {"Struct", "Exception_"} ->
            NamesInFields(body_part.fields)
      [] body_part.kind = "Service" ->
            UNION {NamesInFields(body_part.functions[i].arguments)
                   \cup NamesInFields(body_part.functions[i].throws)
                   \cup NamesIn(body_part.functions[i].type) :
                   i \in 1..Len(body_part.functions)}
      [] OTHER -> {}

\* C8: a body part that refers to a name not registered when it is walked
\* (never declared, declared later, or the struct being declared) aborts
\* parse_idl_file: it raises, stays raised, and no Idl is ever returned,
\* whatever functions were collected before.
C8_UnregisteredIsFatal ==
    [][/\ (ndecls' = ndecls + 1
             /\ NamesOf(last') \ DOMAIN types_by_name # {})
          => status' = "raised"
       /\ status = "raised" => status' = "raised"
       /\ status' = "raised" => idl' = NoIdl /\ looked' = None]_vars

\* A struct that refers to itself, after a function was collected.
C8_Witness ==
    /\ status = "raised"
    /\ last = StructAst("B", <<FieldAst(1, "x", TRUE, IdB)>>)
    /\ "B" \notin DOMAIN types_by_name
    /\ Len(functions) > 0
    /\ idl = NoIdl

\* A type with no alias and no name reference left in it.
RECURSIVE Resolved(_)
Resolved(type) ==
    CASE type.kind \in {"prim", "enum"} -> TRUE
      [] type.kind \in {"struct", "exc"} ->
            \A i \in 1..Len(type.fields) : Resolved(type.fields[i].type)
      [] type.kind \in {"list", "set"} -> Resolved(type.type)
      [] type.kind = "map" -> Resolved(type.key_type) /\ Resolved(type.value_type)
      [] OTHER -> FALSE
ResolvedFields(fields) == \A i \in 1..Len(fields) : Resolved(fields[i].type)

\* C9: resolve_type never recurses beyond MaxDepth, however typedefs name
\* themselves or each other, and what it returned (the target of every
\* TypeDef, the type of every Field, container and Function) holds neither
\* an alias nor a name reference.
C9_ResolutionTerminates ==
    /\ status # "diverged"
    /\ \A n \in DOMAIN types_by_name :
          IF types_by_name[n].kind = "typedef"
          THEN Resolved(types_by_name[n].type)
          ELSE Resolved(types_by_name[n])
    /\ \A i \in 1..Len(functions) :
          /\ ResolvedFields(functions[i].arguments)
          /\ ResolvedFields(functions[i].throws)
          /\ Resolved(functions[i].type)

\* A typedef naming itself over an earlier enum of that name, and a second
\* alias resolved through it.
C9_Witness ==
    /\ status = "running"
    /\ last = Typedef("B", AstList(IdA))
    /\ DOMAIN types_by_name = {"A", "B"}
    /\ types_by_name["A"].kind = "typedef"
    /\ types_by_name["A"].type.kind = "enum"
    /\ types_by_name["B"] = TypeDef("B", List(types_by_name["A"].type))

\* C10: a file's body is walked only after each of its includes has been
\* parsed to the end, innermost first; get_function(name) answers with the
\* function of that name parsed last, and with None for a name never parsed.
C10_IncludesFirstLastWins ==
    /\ \A i \in 1..Len(stack) :
          /\ i < Len(stack) =>
                /\ stack[i].body = 0
                /\ stack[i + 1].path = fs[stack[i].path][stack[i].inc - 1]
          /\ stack[i].body > 0 =>
                \A k \in 1..Len(fs[stack[i].path]) :
                    fs[stack[i].path][k] \in finished
    /\ looked # None =>
          LET named == {i \in 1..Len(functions) :
                           functions[i].name = looked.name}
          IN IF named = {} THEN looked.answer = None
             ELSE looked.answer =
                      functions[CHOOSE i \in named : \A j \in named : j <= i]

\* Two different functions named f, parsed in the entry file after a chain
\* of includes: the later one is the answer.
C10_Witness ==
    /\ status = "returned"
    /\ fs[1] # <<>>
    /\ finished = {1} \cup {fs[1][i] : i \in 1..Len(fs[1])}
    /\ Len(functions) = 2
    /\ functions[1].name = "f" /\ functions[2].name = "f"
    /\ functions[1] # functions[2]
    /\ looked # None
    /\ looked.name = "f"
    /\ looked.answer = functions[2]

====
